---------------------------- MODULE Spec2Model ----------------------------
(***************************************************************************)
(* A model of voice_agent/webhook_server.py: the webhook handler, the      *)
(* drone dispatcher, the order ledger, the transcript window and the SSE   *)
(* broadcast hub.                                                          *)
(*                                                                         *)
(* The server is one asyncio event loop.  A coroutine runs without         *)
(* interruption between two suspension points, so every action below is    *)
(* the code between two suspension points of one task: a whole request     *)
(* handler (the handlers have no await after the body is parsed), one      *)
(* broadcast task (Queue.put on an unbounded queue does not suspend), or   *)
(* one resumption of a subscriber's generator (up to its next yield or     *)
(* its await on the queue).                                                *)
(***************************************************************************)
EXTENDS Integers, Sequences, FiniteSets, TLC

VARIABLES
    drone_fleet,      \* drone id -> [status, battery, location]    (line 59)
    active_orders,    \* the ledger, in insertion order; the key is the index
    live_transcript,  \* the deque of transcript entries             (line 50)
    sse_clients,      \* the list of registered subscriber queues    (line 51)
    queue,            \* connection -> content of its asyncio.Queue  (line 592)
    gen,              \* connection -> state of its event_generator
    received,         \* connection -> frames the generator has yielded
    tasks,            \* broadcast tasks created and not yet run, oldest first
    appended,         \* number of appends to live_transcript so far
    request,          \* the request handled last
    response,         \* the response it was given
    stats,            \* counts of the dispatch calls handled so far
    now               \* the wall clock, in minutes

dispatch_vars == <<drone_fleet, active_orders>>
hub_vars == <<live_transcript, sse_clients, queue, gen, received, tasks, appended>>
io_vars == <<request, response, stats>>
vars == <<drone_fleet, active_orders, live_transcript, sse_clients, queue, gen,
          received, tasks, appended, request, response, stats, now>>

-----------------------------------------------------------------------------
(* Bounds of the model.                                                    *)

MaxDispatchCalls == 4       \* dispatch calls (voice and manual) handled
MaxTranscriptEvents == 3    \* transcript-bearing webhook events handled
MaxClients == 1             \* SSE connections opened
MaxHandles == 4             \* handles in the lists list.remove is applied to
MaxIntakeCalls == 2         \* dispatch calls handled when the wire shapes vary
MaxLedgerCalls == 2         \* dispatch calls handled while the clock runs
MaxMinutes == 10            \* minutes the clock runs after start-up
MaxOfAKind == 2             \* dispatch calls, and entries, when every kind occurs

-----------------------------------------------------------------------------
(* Python values.  A dict is a function on its keys; the empty dict and    *)
(* the empty list are both <<>>.                                           *)

None == "<None>"
EmptyDict == <<>>

Has(d, k) == k \in DOMAIN d
Get(d, k, default) == IF k \in DOMAIN d THEN d[k] ELSE default
Without(d, k) == [x \in DOMAIN d \ {k} |-> d[x]]
\* truth value of a dict or a list
NonEmpty(c) == DOMAIN c # {}
\* truth value of a str or None
TruthyStr(s) == s # None /\ s # ""
Min(a, b) == IF a <= b THEN a ELSE b


-----------------------------------------------------------------------------
(* The fleet and the dispatcher (class DroneDispatcher).                   *)

\* key order of the drone_fleet dict literal
FleetOrder == <<1, 2, 3>>

SeedFleet ==
    [d \in {1, 2, 3} |->
        [status |-> "available",
         battery |-> CASE d = 1 -> 95 [] d = 2 -> 88 [] d = 3 -> 92,
         location |-> "depot"]]

\* what select_optimal_drone yields when it raises "No drones available"
NoDrone == 0

\* the list comprehension without the test of the battery
available_any_battery(fleet) ==
    LET Free(d) == fleet[d].status = "available"
    IN  SelectSeq(FleetOrder, Free)

\* the list comprehension of select_optimal_drone
AvailableDrones(fleet) ==
    LET Eligible(d) == fleet[d].status = "available" /\ fleet[d].battery > 30
    IN  SelectSeq(FleetOrder, Eligible)

\* a max that keeps the last element whose key is maximal
LastMaxByBattery(fleet, available) ==
    LET i == CHOOSE k \in 1..Len(available) :
                 /\ \A j \in 1..Len(available) :
                        fleet[available[j]].battery <= fleet[available[k]].battery
                 /\ \A j \in (k + 1)..Len(available) :
                        fleet[available[j]].battery < fleet[available[k]].battery
    IN  available[i]

\* max(available, key=battery): the first element of the list whose key is maximal
MaxByBattery(fleet, available) ==
    LET i == CHOOSE k \in 1..Len(available) :
                 /\ \A j \in 1..Len(available) :
                        fleet[available[j]].battery <= fleet[available[k]].battery
                 /\ \A j \in 1..(k - 1) :
                        fleet[available[j]].battery < fleet[available[k]].battery
    IN  available[i]

\* select_optimal_drone returning available[-1] for the orders that are not STAT
select_last_available(fleet, urgency) ==
    LET available == AvailableDrones(fleet)
    IN  IF available = <<>> THEN NoDrone
        ELSE IF urgency = "STAT" THEN MaxByBattery(fleet, available)
        ELSE available[Len(available)]

\* select_optimal_drone without the test of status
select_ignoring_status(fleet, urgency) ==
    LET Charged(d) == fleet[d].battery > 30
        available == SelectSeq(FleetOrder, Charged)
    IN  IF available = <<>> THEN NoDrone
        ELSE IF urgency = "STAT" THEN MaxByBattery(fleet, available)
        ELSE available[1]

select_optimal_drone(fleet, urgency) ==
    LET available == AvailableDrones(fleet)
    IN  IF available = <<>> THEN NoDrone
        ELSE IF urgency = "STAT" THEN MaxByBattery(fleet, available)
        ELSE available[1]

\* a table of two tiers: STAT, and the rest
eta_two_tier(drone_id, destination) ==
    IF Get(destination, "urgency", "routine") = "STAT" THEN 2 ELSE 5

calculate_eta(drone_id, destination) ==
    LET u == Get(destination, "urgency", "routine")
    IN  CASE u = "STAT" -> 2
          [] u = "urgent" -> 3
          [] u = "routine" -> 5
          [] OTHER -> 5

\* facility[:3], on the facility names the model submits
Prefix3(facility) ==
    CASE facility = "City General" -> "Cit"
      [] facility = "St" -> "St"
      [] OTHER -> "???"

\* facility[:3].upper(), on the facility names the model submits
Prefix3Upper(facility) ==
    CASE facility = "City General" -> "CIT"
      [] facility = "St" -> "ST"
      [] OTHER -> "???"

\* uuid.uuid4().hex[:4].upper(): any of the 16^4 codes; the model draws from these
HexCodes == {"A1B2", "C3D4"}

\* a reservation that is not written
reserve_nothing(fleet, drone_id) == fleet

\* drone_fleet[drone_id]["status"] = "dispatched"
reserve(fleet, drone_id) == [fleet EXCEPT ![drone_id].status = "dispatched"]

\* a failure that gives the fleet back as it was before the reservation
rolled_back(before, reserved) == before

\* the fleet an exception raised after line 171 leaves: dispatch_mission has no
\* handler, the reservation stays
after_failure(before, reserved) == reserved

\* the outcome of dispatch_mission when it raises with the state as given
Raised(fleet, orders, exc) ==
    [fleet |-> fleet, orders |-> orders, exc |-> exc, result |-> EmptyDict]

\* dispatch_mission: the fleet and the ledger it leaves, the exception it raises
\* (or "none") and the dict it returns.  hex is the random part of the tracking
\* code and clock is datetime.now().  The order identity is a uuid4, modelled as
\* fresh: the ledger index.
dispatch_mission(fleet, orders, order_data, hex, clock) ==
    IF ~Has(order_data, "urgency") THEN Raised(fleet, orders, "KeyError: urgency")
    ELSE
    LET urgency == order_data["urgency"]
        drone_id == select_optimal_drone(fleet, urgency)
    IN  IF drone_id = NoDrone THEN Raised(fleet, orders, "No drones available")
        ELSE
        LET fleet1 == reserve(fleet, drone_id)
            eta_minutes == calculate_eta(drone_id, order_data)
        IN  IF ~Has(order_data, "facility")
            THEN Raised(after_failure(fleet, fleet1), orders, "KeyError: facility")
            ELSE
            LET confirmation_code == <<Prefix3Upper(order_data["facility"]), hex>>
                order_id == Len(orders) + 1
                derived == [order_id |-> order_id,
                            drone_id |-> drone_id,
                            confirmation_code |-> confirmation_code,
                            timestamp |-> clock,
                            eta |-> clock + eta_minutes,
                            status |-> "dispatched"]
                \* {derived fields, **order_data}: a key of the payload wins
                orders1 == Append(orders, order_data @@ derived)
            IN  IF ~Has(order_data, "medications")
                THEN Raised(fleet1, orders1, "KeyError: medications")
                ELSE IF ~Has(order_data, "department")
                THEN Raised(fleet1, orders1, "KeyError: department")
                ELSE [fleet |-> fleet1, orders |-> orders1, exc |-> "none",
                      result |-> [order_id |-> order_id,
                                  drone_id |-> drone_id,
                                  eta_minutes |-> eta_minutes,
                                  confirmation_code |-> confirmation_code,
                                  status |-> "dispatched"]]

validate_order(order_data) ==
    IF ~NonEmpty(Get(order_data, "medications", EmptyDict))
    THEN [valid |-> FALSE, reason |-> "No medications specified"]
    ELSE IF ~NonEmpty(Get(order_data, "delivery_location", EmptyDict))
    THEN [valid |-> FALSE, reason |-> "No delivery location specified"]
    ELSE [valid |-> TRUE, reason |-> ""]

-----------------------------------------------------------------------------
(* Order payloads and webhook envelopes the model submits.                 *)

Medication == [name |-> "Amoxicillin", dosage |-> "500mg", quantity |-> 20,
               form |-> "tablet"]
Location == [building |-> "Main Hospital", floor |-> "1", specific_area |-> "ER Bay 3"]

CompleteOrder(urgency) ==
    [caller_name |-> "Dr. Smith", facility |-> "City General",
     department |-> "Emergency Department", urgency |-> urgency,
     medications |-> <<Medication>>, delivery_location |-> Location]

\* every key present, item list and delivery descriptor non-empty
IsComplete(order_data) ==
    /\ {"caller_name", "facility", "department", "urgency", "medications",
        "delivery_location"} \subseteq DOMAIN order_data
    /\ NonEmpty(order_data["medications"])
    /\ NonEmpty(order_data["delivery_location"])

CompleteOrders == {CompleteOrder("STAT"), CompleteOrder("routine")}

IncompleteOrders ==
    LET base == CompleteOrder("routine")
    IN  {Without(base, "medications"),
         [base EXCEPT !["medications"] = <<>>],
         Without(base, "delivery_location"),
         [base EXCEPT !["delivery_location"] = EmptyDict],
         Without(base, "facility")}

OrderPayloads == CompleteOrders \cup IncompleteOrders

\* the payloads the model posts to /simulate-order
SimulatedOrders ==
    {p \in OrderPayloads : Has(p, "delivery_location")
                             /\ NonEmpty(p["delivery_location"])}

\* the current wire shape: message.toolCalls[0].function.{name, arguments}
ToolCallsEnvelope(name, arguments) ==
    [message |-> [type |-> "tool-calls",
                  toolCalls |-> <<[function |-> [name |-> name,
                                                 arguments |-> arguments]]>>]]

\* the historical wire shape: message.functionCall.{name, parameters}
FunctionCallEnvelope(name, parameters) ==
    [message |-> [type |-> "function-call",
                  functionCall |-> [name |-> name, parameters |-> parameters]]]

ToolEnvelopes ==
    {ToolCallsEnvelope("dispatch_drone", p) : p \in OrderPayloads}
    \cup {FunctionCallEnvelope("dispatch_drone", p) : p \in CompleteOrders}
    \cup {ToolCallsEnvelope("check_status", CompleteOrder("routine")),
          [message |-> [type |-> "tool-calls", toolCalls |-> <<>>]],
          [message |-> [type |-> "tool-calls"]]}

EndOfCallEnvelopes ==
    {[message |-> [type |-> "end-of-call-report", callId |-> "call-1",
                   durationSeconds |-> 45, status |-> "completed",
                   transcript |-> "Test transcript"]]}

\* no message, an unknown kind, a plain transcript fragment
OtherEnvelopes ==
    {EmptyDict,
     [message |-> [type |-> "status-update", status |-> "in-progress"]],
     [message |-> [type |-> "transcript", role |-> "user", transcript |-> "hello"]]}

-----------------------------------------------------------------------------
(* POST /vapi-webhook: handle_vapi_webhook.                                *)

JSONResponse(body) == [status_code |-> 200, body |-> body]
\* raise HTTPException(status_code=500, detail=str(e))
HTTPException500(exc) == [status_code |-> 500, body |-> [detail |-> exc]]
\* the return at the end of the handler
StatusOk == JSONResponse([status |-> "ok"])

OrderConfirmed(dispatch_result) ==
    JSONResponse([result |->
        [text |-> "Order confirmed. Drone Unit dispatched.",
         drone_id |-> dispatch_result["drone_id"],
         eta_minutes |-> dispatch_result["eta_minutes"],
         confirmation_code |-> dispatch_result["confirmation_code"]]])

ValidationFailed(reason) ==
    JSONResponse([result |->
        [text |-> "Order validation failed",
         reason |-> reason,
         remedy |-> "Please call back with corrected information."]])

Apology ==
    JSONResponse([result |->
        [text |-> "I apologize, but we're experiencing a system issue."]])

\* the key whose lookup raises KeyError while the order is logged, or None
OrderLogKeyError(order_data) ==
    LET MedKeys == {"name", "dosage", "quantity", "form"}
    IN  IF ~Has(order_data, "caller_name") THEN "caller_name"
        ELSE IF ~Has(order_data, "facility") THEN "facility"
        ELSE IF ~Has(order_data, "department") THEN "department"
        ELSE IF ~Has(order_data, "urgency") THEN "urgency"
        ELSE IF ~Has(order_data, "medications") THEN "medications"
        ELSE IF \E i \in DOMAIN order_data["medications"] :
                    ~(MedKeys \subseteq DOMAIN order_data["medications"][i])
             THEN "medication field"
        ELSE IF ~Has(order_data, "delivery_location") THEN "delivery_location"
        ELSE None

\* what a branch of the handler leaves: fleet, ledger, response, whether the
\* event was a dispatch call, and dispatch_mission's outcome for such a call
Handled(fleet, orders, resp, is_dispatch, order_data, exc) ==
    [fleet |-> fleet, orders |-> orders, response |-> resp,
     is_dispatch |-> is_dispatch, order_data |-> order_data, exc |-> exc]

\* an extraction that reads the top level of the call only
parameters_only(function_call) == Get(function_call, "parameters", EmptyDict)

\* function_call.get("parameters") or function_call.get("function", {}).get("arguments", {})
order_data_of(function_call) ==
    IF NonEmpty(Get(function_call, "parameters", EmptyDict))
    THEN function_call["parameters"]
    ELSE Get(Get(function_call, "function", EmptyDict), "arguments", EmptyDict)

\* a test that lets every function that has a name pass
names_any_function(function_name) == function_name # None

\* if function_name == "dispatch_drone"
names_dispatch(function_name) == function_name = "dispatch_drone"

\* the branch for "function-call" and "tool-calls"
tool_calls_branch(message, fleet, orders, hex, clock) ==
    LET functionCall == Get(message, "functionCall", EmptyDict)
        toolCalls == Get(message, "toolCalls", <<EmptyDict>>)
    IN  IF ~NonEmpty(functionCall) /\ toolCalls = <<>>
        THEN Handled(fleet, orders, HTTPException500("IndexError"), FALSE,
                     EmptyDict, "IndexError")
        ELSE
        LET function_call == IF NonEmpty(functionCall) THEN functionCall
                             ELSE toolCalls[1]
            function == Get(function_call, "function", EmptyDict)
            function_name ==
                IF NonEmpty(function_call)
                THEN IF TruthyStr(Get(function, "name", None))
                     THEN function["name"]
                     ELSE Get(function_call, "name", None)
                ELSE None
        IN  IF ~names_dispatch(function_name)
            THEN Handled(fleet, orders, StatusOk, FALSE, EmptyDict, "none")
            ELSE
            LET order_data == order_data_of(function_call)
                key == OrderLogKeyError(order_data)
                validation_result == validate_order(order_data)
                d == dispatch_mission(fleet, orders, order_data, hex, clock)
            IN  IF key # None
                THEN Handled(fleet, orders, HTTPException500(key), TRUE,
                             order_data, "KeyError")
                ELSE IF ~validation_result.valid
                THEN Handled(fleet, orders,
                             ValidationFailed(validation_result.reason), TRUE,
                             order_data, "none")
                ELSE IF d.exc = "none"
                THEN Handled(d.fleet, d.orders, OrderConfirmed(d.result), TRUE,
                             order_data, "none")
                ELSE Handled(d.fleet, d.orders, Apology, TRUE, order_data, d.exc)

\* order_for_call: the key of the first entry, in the order of the dict, that
\* is younger than 600 seconds and has the status "dispatched"; 0 for None
order_for_call(orders, clock) ==
    LET Matches(i) == /\ (clock - orders[i]["timestamp"]) * 60 < 600
                      /\ Get(orders[i], "status", None) = "dispatched"
        found == {i \in 1..Len(orders) : Matches(i)}
    IN  IF found = {} THEN 0
        ELSE CHOOSE k \in found : \A j \in found : k <= j

\* a branch that takes the order it found out of the ledger
end_of_call_closing(message, orders, clock) ==
    LET i == order_for_call(orders, clock)
    IN  IF i = 0 THEN orders
        ELSE SubSeq(orders, 1, i - 1) \o SubSeq(orders, i + 1, Len(orders))

\* a branch that attaches the transcript to the entry created last
end_of_call_latest(message, orders, clock) ==
    LET i == IF order_for_call(orders, clock) = 0 THEN 0 ELSE Len(orders)
    IN  IF i = 0 THEN orders
        ELSE [orders EXCEPT ![i] =
                 [transcript |-> Get(message, "transcript", "No transcript available"),
                  call_duration |-> Get(message, "durationSeconds", 0)]
                 @@ orders[i]]

\* the branch for "end-of-call-report": the ledger it leaves.  The outcome of the
\* notification only selects a log line.
end_of_call_branch(message, orders, clock) ==
    LET transcript == Get(message, "transcript", "No transcript available")
        i == order_for_call(orders, clock)
    IN  IF i = 0 THEN orders
        ELSE [orders EXCEPT ![i] =
                 [transcript |-> transcript,
                  call_duration |-> Get(message, "durationSeconds", 0)]
                 @@ orders[i]]

\* what zoom_service.send_order_notification does: it returns a dict whose
\* status is one of these, or it raises
NotifierOutcomes == {"success", "disabled", "error", "raises"}

\* a handler without the try around the notification
notification_unguarded(outcome) ==
    IF outcome = "raises" THEN HTTPException500("notifier") ELSE StatusOk

\* the response after the notification: every status selects a log line, an
\* exception is caught by the except of line 384; the handler returns at line 472
after_notification(outcome) == StatusOk

-----------------------------------------------------------------------------
(* Bookkeeping for the properties: the dispatch calls handled so far.      *)

\* the unit a response reports as dispatched, or NoDrone
ReportedDrone(resp) ==
    IF resp.status_code # 200 THEN NoDrone
    ELSE IF Has(resp.body, "drone_id") THEN resp.body["drone_id"]
    ELSE IF Has(resp.body, "result") /\ Has(resp.body["result"], "drone_id")
         THEN resp.body["result"]["drone_id"]
    ELSE NoDrone

Counted(st, order_data, resp, exc) ==
    [dispatch_calls |-> st.dispatch_calls + 1,
     all_complete |-> st.all_complete /\ IsComplete(order_data),
     confirmed |-> IF ReportedDrone(resp) # NoDrone
                   THEN Append(st.confirmed, ReportedDrone(resp))
                   ELSE st.confirmed,
     no_capacity |-> st.no_capacity
                     + (IF exc = "No drones available" THEN 1 ELSE 0)]

-----------------------------------------------------------------------------
(* The state after start-up.                                               *)

Clients == 1..MaxClients

Init ==
    /\ drone_fleet = SeedFleet
    /\ active_orders = <<>>
    /\ live_transcript = <<>>
    /\ sse_clients = <<>>
    /\ queue = [c \in Clients |-> <<>>]
    /\ gen = [c \in Clients |-> [pc |-> "unborn", index |-> 0, state |-> 0]]
    /\ received = [c \in Clients |-> <<>>]
    /\ tasks = <<>>
    /\ appended = 0
    /\ request = [endpoint |-> "none", data |-> EmptyDict]
    /\ response = [status_code |-> 0, body |-> EmptyDict]
    /\ stats = [dispatch_calls |-> 0, all_complete |-> TRUE, confirmed |-> <<>>,
                no_capacity |-> 0]
    /\ now = 0

-----------------------------------------------------------------------------
(* Requests that reach the fleet and the ledger.                           *)

\* a webhook event of kind "function-call" or "tool-calls", one of envelopes,
\* while fewer than budget dispatch calls were handled
ToolCallEvent(envelopes, budget) ==
    /\ stats.dispatch_calls < budget
    /\ \E data \in envelopes, hex \in HexCodes :
        LET h == tool_calls_branch(data["message"], drone_fleet, active_orders,
                                   hex, now)
        IN  /\ drone_fleet' = h.fleet
            /\ active_orders' = h.orders
            /\ request' = [endpoint |-> "/vapi-webhook", data |-> data]
            /\ response' = h.response
            /\ stats' = IF h.is_dispatch
                        THEN Counted(stats, h.order_data, h.response, h.exc)
                        ELSE stats
    /\ UNCHANGED <<hub_vars, now>>

VapiToolCalls == ToolCallEvent(ToolEnvelopes, MaxDispatchCalls)

\* a webhook event of kind "end-of-call-report", one of envelopes; the notifier,
\* called when an order is found, does one of outcomes
EndOfCallEvent(envelopes, outcomes) ==
    /\ \E data \in envelopes, outcome \in outcomes :
        LET found == order_for_call(active_orders, now) # 0
        IN  /\ active_orders' = end_of_call_branch(data["message"], active_orders,
                                                   now)
            /\ request' = [endpoint |-> "/vapi-webhook", data |-> data,
                           notifier |-> IF found THEN outcome ELSE "not called"]
            /\ response' = IF found THEN after_notification(outcome) ELSE StatusOk
    /\ UNCHANGED <<drone_fleet, hub_vars, stats, now>>

VapiEndOfCall == EndOfCallEvent(EndOfCallEnvelopes, {"success"})

\* a webhook event without message, of kind "transcript" or of an unknown kind
VapiOther ==
    /\ \E data \in OtherEnvelopes :
        /\ request' = [endpoint |-> "/vapi-webhook", data |-> data]
        /\ response' = StatusOk
    /\ UNCHANGED <<dispatch_vars, hub_vars, stats, now>>

\* POST /simulate-order with one of orders, while fewer than budget dispatch
\* calls were handled
SimulateOrderRequest(orders, budget) ==
    /\ stats.dispatch_calls < budget
    /\ \E order \in orders, hex \in HexCodes :
        LET d == dispatch_mission(drone_fleet, active_orders, order, hex, now)
            resp == IF d.exc = "none"
                    THEN JSONResponse(d.result @@ [status |-> "success",
                                                   message |-> "Order dispatched"])
                    ELSE HTTPException500(d.exc)
        IN  /\ drone_fleet' = d.fleet
            /\ active_orders' = d.orders
            /\ request' = [endpoint |-> "/simulate-order", data |-> order]
            /\ response' = resp
            /\ stats' = Counted(stats, order, resp, d.exc)
    /\ UNCHANGED <<hub_vars, now>>

simulate_order == SimulateOrderRequest(SimulatedOrders, MaxDispatchCalls)

NextDispatch == VapiToolCalls \/ VapiEndOfCall \/ VapiOther \/ simulate_order

SpecDispatch == Init /\ [][NextDispatch]_vars

-----------------------------------------------------------------------------
(* The selection of a unit on any state of the fleet: calls of             *)
(* select_optimal_drone, and the first voice dispatch on such a fleet.     *)

\* charge levels around the threshold of 30, and one well above it
BatteryLevels == {30, 31, 95}

FleetStates ==
    [{1, 2, 3} -> [status : {"available", "dispatched"},
                   battery : BatteryLevels,
                   location : {"depot"}]]

Urgencies == {"STAT", "urgent", "routine", "unknown"}

InitFleet ==
    /\ drone_fleet \in FleetStates
    /\ active_orders = <<>>
    /\ live_transcript = <<>>
    /\ sse_clients = <<>>
    /\ queue = [c \in Clients |-> <<>>]
    /\ gen = [c \in Clients |-> [pc |-> "unborn", index |-> 0, state |-> 0]]
    /\ received = [c \in Clients |-> <<>>]
    /\ tasks = <<>>
    /\ appended = 0
    /\ request = [endpoint |-> "none", data |-> EmptyDict]
    /\ response = [status_code |-> 0, body |-> EmptyDict]
    /\ stats = [dispatch_calls |-> 0, all_complete |-> TRUE, confirmed |-> <<>>,
                no_capacity |-> 0]
    /\ now = 0

\* dispatcher.select_optimal_drone(urgency): what it returns or raises
SelectUnit(urgency) ==
    LET drone_id == select_optimal_drone(drone_fleet, urgency)
    IN  /\ request' = [endpoint |-> "select_optimal_drone", data |-> urgency]
        /\ response' = [status_code |-> 0,
                        body |-> IF drone_id = NoDrone
                                 THEN [raised |-> "No drones available"]
                                 ELSE [returned |-> drone_id]]
        /\ UNCHANGED <<dispatch_vars, hub_vars, stats, now>>

\* the dicts calculate_eta is called on: orders of every urgency, of another
\* facility, without urgency, and the empty dict
Destinations ==
    {CompleteOrder(urgency) : urgency \in Urgencies}
    \cup {[CompleteOrder(urgency) EXCEPT !["facility"] = "St"] : urgency \in Urgencies}
    \cup {Without(CompleteOrder("STAT"), "urgency"), EmptyDict}

\* dispatcher.calculate_eta(drone_id, destination): what it returns
EstimateArrival(drone_id, destination) ==
    /\ request' = [endpoint |-> "calculate_eta",
                   data |-> [drone_id |-> drone_id, destination |-> destination]]
    /\ response' = [status_code |-> 0,
                    body |-> [returned |-> calculate_eta(drone_id, destination)]]
    /\ UNCHANGED <<dispatch_vars, hub_vars, stats, now>>

FirstVoiceDispatch == ToolCallEvent(ToolEnvelopes, 1)

NextFleet ==
    \/ \E urgency \in Urgencies : SelectUnit(urgency)
    \/ \E drone_id \in DOMAIN drone_fleet, destination \in Destinations :
           EstimateArrival(drone_id, destination)
    \/ FirstVoiceDispatch

SpecFleet == InitFleet /\ [][NextFleet]_vars

-----------------------------------------------------------------------------
(* The ledger over time: dispatches, call summaries with every outcome of  *)
(* the notifier, the read endpoints, and the clock.                        *)

\* raise HTTPException(status_code=404, detail="Order not found")
HTTPException404 == [status_code |-> 404, body |-> [detail |-> "Order not found"]]

\* a lookup that answers 200 with an empty body for a key that is absent
get_or_empty(orders, order_id) ==
    [status_code |-> 200,
     body |-> IF order_id \in DOMAIN orders THEN orders[order_id] ELSE EmptyDict]

\* GET /orders/{order_id}
get_order(orders, order_id) ==
    IF order_id \notin DOMAIN orders THEN HTTPException404
    ELSE [status_code |-> 200, body |-> orders[order_id]]

\* a status surface that counts every unit of the fleet as available
root_counting_fleet(fleet, orders) ==
    [status_code |-> 200,
     body |-> [status |-> "online",
               service |-> "Medical Drone Voice Agent",
               active_orders |-> Len(orders),
               available_drones |-> Cardinality(DOMAIN fleet)]]

\* GET /
root(fleet, orders) ==
    [status_code |-> 200,
     body |-> [status |-> "online",
               service |-> "Medical Drone Voice Agent",
               active_orders |-> Len(orders),
               available_drones |->
                   Cardinality({d \in DOMAIN fleet :
                                   fleet[d].status = "available"})]]

\* a complete STAT order; a routine order that carries a status of its own;
\* orders that lack the facility and the department
LedgerOrders ==
    {CompleteOrder("STAT"),
     [status |-> "pending"] @@ CompleteOrder("routine"),
     Without(CompleteOrder("routine"), "facility"),
     Without(CompleteOrder("routine"), "department")}

LedgerEnvelopes == {ToolCallsEnvelope("dispatch_drone", p) : p \in LedgerOrders}

\* a call summary with every field, and one with none
CallReports ==
    EndOfCallEnvelopes \cup {[message |-> [type |-> "end-of-call-report"]]}

VoiceOrder == ToolCallEvent(LedgerEnvelopes, MaxLedgerCalls)

ManualOrder == SimulateOrderRequest(LedgerOrders, MaxLedgerCalls)

CallSummary == EndOfCallEvent(CallReports, NotifierOutcomes)

RootRequest ==
    /\ request' = [endpoint |-> "/", data |-> EmptyDict]
    /\ response' = root(drone_fleet, active_orders)
    /\ UNCHANGED <<dispatch_vars, hub_vars, stats, now>>

\* the keys asked for: those of the ledger, and one that no entry has
GetOrderRequest(order_id) ==
    /\ request' = [endpoint |-> "/orders/{order_id}", data |-> order_id]
    /\ response' = get_order(active_orders, order_id)
    /\ UNCHANGED <<dispatch_vars, hub_vars, stats, now>>

\* five minutes pass
Tick ==
    /\ now + 5 <= MaxMinutes
    /\ now' = now + 5
    /\ UNCHANGED <<dispatch_vars, hub_vars, io_vars>>

NextLedger ==
    \/ VoiceOrder
    \/ ManualOrder
    \/ CallSummary
    \/ RootRequest
    \/ \E order_id \in 1..(Len(active_orders) + 1) : GetOrderRequest(order_id)
    \/ Tick

SpecLedger == Init /\ [][NextLedger]_vars

-----------------------------------------------------------------------------
(* Tool invocations in every wire shape the handler reads, and payloads    *)
(* that carry a key of the derived fields.                                 *)

\* the call: name and parameters at its top level, name and arguments under
\* "function", or the name at the top level and the arguments under "function"
CallShape(location, name, arguments) ==
    CASE location = "top" -> [name |-> name, parameters |-> arguments]
      [] location = "nested" -> [function |-> [name |-> name, arguments |-> arguments]]
      [] location = "mixed" -> [name |-> name, function |-> [arguments |-> arguments]]

\* the envelope: either type tag, the call as message.functionCall or as
\* message.toolCalls[0]
ShapedEnvelope(tag, carrier, location, name, arguments) ==
    LET call == CallShape(location, name, arguments)
    IN  IF carrier = "functionCall"
        THEN [message |-> [type |-> tag, functionCall |-> call]]
        ELSE [message |-> [type |-> tag, toolCalls |-> <<call>>]]

ShapesOf(name, arguments) ==
    {ShapedEnvelope(tag, carrier, location, name, arguments) :
        tag \in {"function-call", "tool-calls"},
        carrier \in {"functionCall", "toolCalls"},
        location \in {"top", "nested", "mixed"}}

\* a complete order, an order that names a unit itself, an order without items
IntakeOrders ==
    {CompleteOrder("STAT"),
     [drone_id |-> 3] @@ CompleteOrder("routine"),
     Without(CompleteOrder("routine"), "medications")}

FunctionNames == {"dispatch_drone", "check_status"}

IntakeEnvelopes ==
    UNION {ShapesOf(name, arguments) :
              name \in FunctionNames, arguments \in IntakeOrders}

VapiToolShapes == ToolCallEvent(IntakeEnvelopes, MaxIntakeCalls)

SimulateIntake == SimulateOrderRequest(IntakeOrders, MaxIntakeCalls)

NextIntake == VapiToolShapes \/ SimulateIntake

SpecIntake == Init /\ [][NextIntake]_vars

-----------------------------------------------------------------------------
(* The transcript window and the extraction of utterances.                 *)

\* live_transcript = deque(maxlen=100)
TranscriptMaxlen == 100

\* an append to a deque without maxlen
append_unbounded(d, x, maxlen) == Append(d, x)

\* deque.append on a deque with a maxlen: a full deque drops its oldest element
deque_append(d, x, maxlen) ==
    IF Len(d) >= maxlen THEN Append(Tail(d), x) ELSE Append(d, x)

\* datetime.strftime("%I:%M %p") of a clock in minutes since midnight
strftime(clock) ==
    LET m == clock % 1440
    IN  [hour |-> (((m \div 60) + 11) % 12) + 1,
         minute |-> m % 60,
         half |-> IF m < 720 THEN "AM" ELSE "PM"]

\* an entry with a label of its own for the roles that are neither
labelled_by_role(role, text, clock) ==
    [speaker |-> CASE role = "assistant" -> "VAPI Agent"
                   [] role = "user" -> "User"
                   [] OTHER -> "System",
     text |-> text,
     time |-> strftime(clock),
     role |-> role]

\* speaker = "VAPI Agent" if role == "assistant" else "User", and the dict
transcript_entry(role, text, clock) ==
    [speaker |-> IF role = "assistant" THEN "VAPI Agent" ELSE "User",
     text |-> text,
     time |-> strftime(clock),
     role |-> role]

\* f"data: {json.dumps(entry)}\n\n"
sse_message(entry) == [data |-> entry]

\* what a transcript branch leaves: the window, the broadcast tasks created
Extracted(window, created) == [window |-> window, created |-> created]

\* a test that lets every segment pass that is not in progress
not_in_progress(status) == status # "in-progress"

\* if status == "stopped": only completed speech segments are processed
segment_completed(status) == status = "stopped"

\* the content of the last message, whatever its role
last_of_any_role(messages, role) ==
    IF messages = <<>> THEN ""
    ELSE Get(messages[Len(messages)], "content", "")

\* for msg in reversed(messages): if msg.get("role") == role: content; break
last_with_role(messages, role) ==
    LET same == {i \in DOMAIN messages : Get(messages[i], "role", None) = role}
    IN  IF same = {} THEN ""
        ELSE LET last == CHOOSE i \in same : \A j \in same : j <= i
             IN  Get(messages[last], "content", "")

\* the branch for "speech-update"
speech_update_branch(message, window, clock) ==
    LET role == Get(message, "role", "unknown")
        status == Get(message, "status", "")
        artifact == Get(message, "artifact", EmptyDict)
        messages == Get(artifact, "messages", <<>>)
        transcript_msg == last_with_role(messages, role)
        entry == transcript_entry(role, transcript_msg, clock)
    IN  IF segment_completed(status) /\ transcript_msg # ""
        THEN Extracted(deque_append(window, entry, TranscriptMaxlen), <<entry>>)
        ELSE Extracted(window, <<>>)

\* a loop that takes the last message with content, whatever its role
newest_message_branch(message, window, clock) ==
    LET conversation == Get(message, "conversation", <<>>)
        filled == {i \in DOMAIN conversation :
                      Get(conversation[i], "content", "") # ""}
    IN  IF ~Has(message, "conversation") \/ filled = {}
        THEN Extracted(window, <<>>)
        ELSE LET last == CHOOSE i \in filled : \A j \in filled : j <= i
                 entry == transcript_entry(Get(conversation[last], "role", ""),
                                           conversation[last]["content"], clock)
             IN  Extracted(deque_append(window, entry, TranscriptMaxlen), <<entry>>)

\* the branch for "conversation-update": the loop goes on to earlier messages
\* until one of user or assistant has content
conversation_update_branch(message, window, clock) ==
    LET conversation == Get(message, "conversation", <<>>)
        spoken == {i \in DOMAIN conversation :
                      /\ Get(conversation[i], "role", "") \in {"user", "assistant"}
                      /\ Get(conversation[i], "content", "") # ""}
    IN  IF ~Has(message, "conversation") \/ spoken = {}
        THEN Extracted(window, <<>>)
        ELSE LET last == CHOOSE i \in spoken : \A j \in spoken : j <= i
                 entry == transcript_entry(conversation[last]["role"],
                                           conversation[last]["content"], clock)
             IN  Extracted(deque_append(window, entry, TranscriptMaxlen), <<entry>>)

\* the utterances of a call; the n-th event that is handled carries the n-th
Utterances == <<"E1", "E2", "E3", "E4", "E5", "E6">>

SystemMessage == [role |-> "system", content |-> "You are a dispatch assistant."]

SpeechEnvelopes(text) ==
    {[message |-> [type |-> "speech-update", role |-> "user", status |-> status,
                   artifact |-> [messages |-> <<SystemMessage,
                                               [role |-> "user",
                                                content |-> text]>>]]]
        : status \in {"stopped", "in-progress"}}

ConversationEnvelopes(text) ==
    {[message |-> [type |-> "conversation-update",
                   conversation |-> <<SystemMessage,
                                      [role |-> "user", content |-> text]>>]]}

-----------------------------------------------------------------------------
(* The broadcast hub: broadcast_transcript and GET /live-transcript.       *)

\* queue = asyncio.Queue(): maxsize 0, a queue without bound
QueueMaxsize == 0

\* a queue of maxsize 1
full_at_one(q) == Len(q) >= 1

\* asyncio.Queue.full(); put suspends the caller while it holds
full(q) == IF QueueMaxsize <= 0 THEN FALSE ELSE Len(q) >= QueueMaxsize

Range(list) == {list[i] : i \in DOMAIN list}

\* a broadcast that puts nothing
put_nothing(queues, clients, message) == queues

\* a loop over sse_clients[1:]
put_all_but_first(queues, clients, message) ==
    [c \in DOMAIN queues |->
        IF clients # <<>> /\ c \in Range(Tail(clients)) THEN Append(queues[c], message)
        ELSE queues[c]]

\* for queue in sse_clients: await queue.put(message)
put_all(queues, clients, message) ==
    [c \in DOMAIN queues |->
        LET times == Cardinality({i \in DOMAIN clients : clients[i] = c})
        IN  queues[c] \o [k \in 1..times |-> message]]

\* list.remove(x): the list without the first x; raises ValueError without one
list_remove(list, x) ==
    LET first == CHOOSE i \in DOMAIN list :
                     list[i] = x /\ \A j \in 1..(i - 1) : list[j] # x
    IN  [raised |-> x \notin Range(list),
         list |-> IF x \notin Range(list) THEN list
                  ELSE SubSeq(list, 1, first - 1) \o
                       SubSeq(list, first + 1, Len(list))]

-----------------------------------------------------------------------------
(* Requests and tasks that reach the transcript window and the hub.        *)

\* a webhook event of kind "speech-update", one of envelopes, while fewer than
\* budget entries were appended
SpeechUpdateEvent(envelopes, budget) ==
    /\ appended < budget
    /\ \E data \in envelopes :
        LET x == speech_update_branch(data["message"], live_transcript, now)
        IN  /\ live_transcript' = x.window
            /\ tasks' = tasks \o x.created
            /\ appended' = appended + Len(x.created)
            /\ request' = [endpoint |-> "/vapi-webhook", data |-> data]
            /\ response' = StatusOk
    /\ UNCHANGED <<dispatch_vars, sse_clients, queue, gen, received, stats, now>>

VapiSpeechUpdate ==
    SpeechUpdateEvent(SpeechEnvelopes(Utterances[appended + 1]), MaxTranscriptEvents)

\* a webhook event of kind "conversation-update", one of envelopes, while fewer
\* than budget entries were appended
ConversationUpdateEvent(envelopes, budget) ==
    /\ appended < budget
    /\ \E data \in envelopes :
        LET x == conversation_update_branch(data["message"], live_transcript, now)
        IN  /\ live_transcript' = x.window
            /\ tasks' = tasks \o x.created
            /\ appended' = appended + Len(x.created)
            /\ request' = [endpoint |-> "/vapi-webhook", data |-> data]
            /\ response' = StatusOk
    /\ UNCHANGED <<dispatch_vars, sse_clients, queue, gen, received, stats, now>>

VapiConversationUpdate ==
    ConversationUpdateEvent(ConversationEnvelopes(Utterances[appended + 1]),
                            MaxTranscriptEvents)

\* an event loop that runs the task created last
broadcast_newest_first ==
    /\ tasks # <<>>
    /\ \A i \in DOMAIN sse_clients : ~full(queue[sse_clients[i]])
    /\ queue' = put_all(queue, sse_clients, sse_message(tasks[Len(tasks)]))
    /\ tasks' = SubSeq(tasks, 1, Len(tasks) - 1)
    /\ UNCHANGED <<dispatch_vars, live_transcript, sse_clients, gen, received,
                   appended, io_vars, now>>

\* the oldest broadcast task runs: no put suspends it unless a queue is full
broadcast_transcript ==
    /\ tasks # <<>>
    /\ \A i \in DOMAIN sse_clients : ~full(queue[sse_clients[i]])
    /\ queue' = put_all(queue, sse_clients, sse_message(Head(tasks)))
    /\ tasks' = Tail(tasks)
    /\ UNCHANGED <<dispatch_vars, live_transcript, sse_clients, gen, received,
                   appended, io_vars, now>>

\* one turn of "while True: message = await queue.get(); yield message"
LiveLoop(c) ==
    IF queue[c] # <<>>
    THEN /\ queue' = [queue EXCEPT ![c] = Tail(@)]
         /\ received' = [received EXCEPT ![c] = Append(@, Head(queue[c]))]
         /\ gen' = [gen EXCEPT ![c].pc = "yielded"]
    ELSE /\ gen' = [gen EXCEPT ![c].pc = "waiting"]
         /\ UNCHANGED <<queue, received>>

\* GET /live-transcript: event_generator runs to its first suspension.
\* Connections are numbered in the order they are opened.
Connect(c) ==
    /\ gen[c].pc = "unborn"
    /\ \A b \in 1..(c - 1) : gen[b].pc # "unborn"
    /\ sse_clients' = Append(sse_clients, c)
    /\ IF live_transcript = <<>>
       THEN /\ gen' = [gen EXCEPT ![c] = [pc |-> "waiting", index |-> 0,
                                          state |-> appended]]
            /\ UNCHANGED received
       ELSE /\ gen' = [gen EXCEPT ![c] = [pc |-> "replay", index |-> 1,
                                          state |-> appended]]
            /\ received' = [received EXCEPT
                               ![c] = Append(@, sse_message(live_transcript[1]))]
    /\ UNCHANGED <<dispatch_vars, live_transcript, queue, tasks, appended,
                   io_vars, now>>

\* the consumer asks for the next frame, or a put wakes the generator.
\* The deque iterator raises RuntimeError when the deque was mutated since the
\* iterator was made; the except clause does not catch it.
Resume(c) ==
    /\ \/ gen[c].pc \in {"replay", "yielded"}
       \/ gen[c].pc = "waiting" /\ queue[c] # <<>>
    /\ IF gen[c].pc = "replay"
       THEN IF appended # gen[c].state
            THEN /\ gen' = [gen EXCEPT ![c].pc = "failed"]
                 /\ UNCHANGED <<queue, received>>
            ELSE IF gen[c].index < Len(live_transcript)
            THEN /\ gen' = [gen EXCEPT ![c].index = @ + 1]
                 /\ received' = [received EXCEPT ![c] =
                        Append(@, sse_message(live_transcript[gen[c].index + 1]))]
                 /\ UNCHANGED queue
            ELSE LiveLoop(c)
       ELSE LiveLoop(c)
    /\ UNCHANGED <<dispatch_vars, live_transcript, sse_clients, tasks, appended,
                   io_vars, now>>

\* except asyncio.CancelledError: sse_clients.remove(queue); raise.
\* A ValueError of remove replaces the CancelledError.
Unsubscribe(c) ==
    LET r == list_remove(sse_clients, c)
    IN  /\ sse_clients' = r.list
        /\ gen' = [gen EXCEPT ![c].pc = IF r.raised THEN "failed" ELSE "cancelled"]

\* the client goes away.  The task is cancelled: CancelledError is raised in
\* the generator if it is suspended in queue.get(); a generator suspended at a
\* yield is closed instead (GeneratorExit), which the except clause lets pass.
Disconnect(c) ==
    /\ gen[c].pc \in {"replay", "yielded", "waiting"}
    /\ IF gen[c].pc = "waiting"
       THEN Unsubscribe(c)
       ELSE /\ gen' = [gen EXCEPT ![c].pc = "closed"]
            /\ UNCHANGED sse_clients
    /\ UNCHANGED <<dispatch_vars, live_transcript, queue, received, tasks,
                   appended, io_vars, now>>

NextHub ==
    \/ VapiSpeechUpdate
    \/ VapiConversationUpdate
    \/ broadcast_transcript
    \/ \E c \in Clients : Connect(c)
    \/ \E c \in Clients : Resume(c)
    \/ \E c \in Clients : Disconnect(c)

SpecHub == Init /\ [][NextHub]_vars

\* the event loop runs every task that is ready: a broadcast task that was
\* created runs, and so does the delivery loop of a connection whose client
\* reads.  The client of the first connection is under no obligation to read.
Readers == Clients \ {1}

SpecHubFair ==
    /\ SpecHub
    /\ WF_vars(broadcast_transcript)
    /\ \A c \in Readers : WF_vars(Resume(c))

-----------------------------------------------------------------------------
(* Speech updates of every make: any role tag, any status, any embedded    *)
(* list, while subscribers connect and the broadcasts run.                 *)

AgentReply == [role |-> "assistant", content |-> "On its way."]

\* the embedded lists: the utterance before a reply of the agent, before an
\* empty message of the user; a reply alone; a message without content; no
\* message
MessageLists(text) ==
    LET said == [role |-> "user", content |-> text]
    IN  {<<said, AgentReply>>,
         <<said, [role |-> "user", content |-> ""]>>,
         <<AgentReply>>,
         <<[role |-> "user"]>>,
         <<>>}

\* the events without the key artifact, and with each list
Artifacts(text) ==
    {EmptyDict}
    \cup {[artifact |-> [messages |-> messages]] : messages \in MessageLists(text)}

RoleTags == {EmptyDict, [role |-> "user"], [role |-> "assistant"]}

StatusTags == {EmptyDict, [status |-> "stopped"], [status |-> "in-progress"]}

UtteranceEnvelopes(text) ==
    {[message |-> [type |-> "speech-update"] @@ role @@ status @@ artifact] :
        role \in RoleTags, status \in StatusTags, artifact \in Artifacts(text)}

VapiUtterance ==
    SpeechUpdateEvent(UtteranceEnvelopes(Utterances[appended + 1]),
                      MaxTranscriptEvents)

NextUtterance ==
    \/ VapiUtterance
    \/ broadcast_transcript
    \/ \E c \in Clients : Connect(c)

SpecUtterance == Init /\ [][NextUtterance]_vars

-----------------------------------------------------------------------------
(* Both extraction paths on events of every make: speech updates of any    *)
(* role tag, conversation snapshots of any list.                           *)

ToolMessage == [role |-> "tool", content |-> "order accepted"]

\* the snapshots: system, user, assistant; the utterance before an empty reply,
\* before a reply without content, before a system message, before the result
\* of a tool; a system message alone; a message without role; no message
Conversations(text) ==
    LET said == [role |-> "user", content |-> text]
    IN  {<<SystemMessage, said, AgentReply>>,
         <<said, [role |-> "assistant", content |-> ""]>>,
         <<said, [role |-> "assistant"]>>,
         <<said, SystemMessage>>,
         <<said, ToolMessage>>,
         <<SystemMessage>>,
         <<[content |-> text]>>,
         <<>>}

\* the events with each list, and the event without the key conversation
SnapshotEnvelopes(text) ==
    {[message |-> [type |-> "conversation-update"]]}
    \cup {[message |-> [type |-> "conversation-update", conversation |-> c]] :
              c \in Conversations(text)}

SpeakerTags ==
    {EmptyDict, [role |-> "user"], [role |-> "assistant"], [role |-> "system"],
     [role |-> "tool"]}

\* completed segments of every role tag over one embedded list
SegmentEnvelopes(text) ==
    {[message |-> [type |-> "speech-update", status |-> "stopped",
                   artifact |-> [messages |-> <<SystemMessage,
                                               [role |-> "user", content |-> text],
                                               AgentReply, ToolMessage>>]]
                  @@ role] : role \in SpeakerTags}

VapiSegment ==
    SpeechUpdateEvent(SegmentEnvelopes(Utterances[appended + 1]),
                      MaxTranscriptEvents)

VapiSnapshot ==
    ConversationUpdateEvent(SnapshotEnvelopes(Utterances[appended + 1]),
                            MaxTranscriptEvents)

NextExtract == VapiSegment \/ VapiSnapshot \/ broadcast_transcript

SpecExtract == Init /\ [][NextExtract]_vars

-----------------------------------------------------------------------------
(* A call long enough to fill the window: more entries than it holds.      *)

\* the text of the n-th utterance of a long call
UtteranceAt(n) == "E" \o ToString(n)

\* entries appended in a long call: the capacity and a few more
WindowBudget == TranscriptMaxlen + MaxTranscriptEvents

LongCallSegment ==
    SpeechUpdateEvent(SpeechEnvelopes(UtteranceAt(appended + 1)), WindowBudget)

LongCallSnapshot ==
    ConversationUpdateEvent(ConversationEnvelopes(UtteranceAt(appended + 1)),
                            WindowBudget)

NextWindow == LongCallSegment \/ LongCallSnapshot \/ broadcast_transcript

SpecWindow == Init /\ [][NextWindow]_vars

-----------------------------------------------------------------------------
(* The removal of a handle as an operation of its own: any list of         *)
(* handles, any handle, any number of times.                               *)

Handles == 1..MaxHandles

\* the lists without repetition over a set of handles
DistinctLists(S) ==
    UNION {{f \in [1..n -> S] : \A i, j \in 1..n : i # j => f[i] # f[j]}
              : n \in 0..Cardinality(S)}

InitRemove ==
    /\ sse_clients \in DistinctLists(Handles)
    /\ queue = [h \in Handles |-> <<>>]
    /\ gen = [h \in Handles |-> [pc |-> "waiting", index |-> 0, state |-> 0]]
    /\ received = [h \in Handles |-> <<>>]
    /\ drone_fleet = SeedFleet
    /\ active_orders = <<>>
    /\ live_transcript = <<>>
    /\ tasks = <<>>
    /\ appended = 0
    /\ request = [endpoint |-> "none", data |-> EmptyDict]
    /\ response = [status_code |-> 0, body |-> EmptyDict]
    /\ stats = [dispatch_calls |-> 0, all_complete |-> TRUE, confirmed |-> <<>>,
                no_capacity |-> 0]
    /\ now = 0

NextRemove ==
    \E h \in Handles :
        /\ gen[h].pc # "failed"
        /\ Unsubscribe(h)
        /\ UNCHANGED <<dispatch_vars, live_transcript, queue, received, tasks,
                       appended, io_vars, now>>

SpecRemove == InitRemove /\ [][NextRemove]_vars

-----------------------------------------------------------------------------
(* Every kind of webhook event and every read endpoint, on one server with *)
(* a subscriber.                                                           *)

\* a history that lists the newest entry first
history_newest_first(window) ==
    [status_code |-> 200,
     body |-> [transcript |-> [i \in DOMAIN window |->
                                  window[Len(window) + 1 - i]]]]

\* GET /transcript-history: list(live_transcript)
get_transcript_history(window) ==
    [status_code |-> 200, body |-> [transcript |-> window]]

\* GET /orders
get_orders(orders) ==
    [status_code |-> 200, body |-> [total_orders |-> Len(orders), orders |-> orders]]

\* GET /drones
get_drones(fleet) ==
    [status_code |-> 200,
     body |-> [total_drones |-> Cardinality(DOMAIN fleet),
               available |-> Cardinality({d \in DOMAIN fleet :
                                             fleet[d].status = "available"}),
               drones |-> fleet]]

\* tool invocations that name the dispatch function, in both wire shapes
DispatchInvocations ==
    {ToolCallsEnvelope("dispatch_drone", CompleteOrder("STAT")),
     FunctionCallEnvelope("dispatch_drone", CompleteOrder("routine"))}

\* tool invocations that name another function, in both wire shapes
OtherInvocations ==
    {ToolCallsEnvelope("check_status", CompleteOrder("STAT")),
     FunctionCallEnvelope("check_status", CompleteOrder("routine"))}

AnyInvocation == ToolCallEvent(DispatchInvocations \cup OtherInvocations, MaxOfAKind)

AnySegment ==
    SpeechUpdateEvent(SpeechEnvelopes(Utterances[appended + 1]), MaxOfAKind)

AnySnapshot ==
    ConversationUpdateEvent(ConversationEnvelopes(Utterances[appended + 1]),
                            MaxOfAKind)

ReadEndpoints == {"/", "/orders", "/drones", "/transcript-history"}

\* a GET of one of the read endpoints
ReadRequest(endpoint) ==
    /\ request' = [endpoint |-> endpoint, data |-> EmptyDict]
    /\ response' = CASE endpoint = "/" -> root(drone_fleet, active_orders)
                     [] endpoint = "/orders" -> get_orders(active_orders)
                     [] endpoint = "/drones" -> get_drones(drone_fleet)
                     [] endpoint = "/transcript-history" ->
                            get_transcript_history(live_transcript)
    /\ UNCHANGED <<dispatch_vars, hub_vars, stats, now>>

NextSurfaces ==
    \/ AnyInvocation
    \/ VapiEndOfCall
    \/ AnySegment
    \/ AnySnapshot
    \/ VapiOther
    \/ broadcast_transcript
    \/ Connect(1)
    \/ \E endpoint \in ReadEndpoints : ReadRequest(endpoint)

SpecSurfaces == Init /\ [][NextSurfaces]_vars

-----------------------------------------------------------------------------
(* More dispatch calls than the fleet has units, on both surfaces, with    *)
(* call summaries and the status surface in between.                       *)

\* a complete order of either urgency, and one that lacks the facility
ExhaustOrders ==
    CompleteOrders \cup {Without(CompleteOrder("routine"), "facility")}

ExhaustEnvelopes == {ToolCallsEnvelope("dispatch_drone", p) : p \in ExhaustOrders}

VoiceDispatch == ToolCallEvent(ExhaustEnvelopes, MaxDispatchCalls)

ManualDispatch == SimulateOrderRequest(ExhaustOrders, MaxDispatchCalls)

NextExhaust == VoiceDispatch \/ ManualDispatch \/ VapiEndOfCall \/ RootRequest

SpecExhaust == Init /\ [][NextExhaust]_vars

-----------------------------------------------------------------------------
(* Properties of the dispatch path.                                        *)

\* units eligible at start-up
EligibleAtStart == Len(AvailableDrones(SeedFleet))

\* C1: of N dispatch calls with complete payloads, handled in any order over the
\* voice path and the manual trigger, exactly min(N, K) are confirmed (K the
\* number of units eligible at start), the others fail for lack of capacity,
\* and no unit is reported to two of the confirmed calls.
C1_ExactlyKReservations ==
    stats.all_complete =>
        /\ Len(stats.confirmed) = Min(stats.dispatch_calls, EligibleAtStart)
        /\ stats.no_capacity = stats.dispatch_calls - Len(stats.confirmed)
        /\ \A i, j \in 1..Len(stats.confirmed) :
               i # j => stats.confirmed[i] # stats.confirmed[j]

\* more calls than units, all complete, through both surfaces
C1_Witness ==
    /\ stats.all_complete
    /\ stats.dispatch_calls > EligibleAtStart
    /\ Len(stats.confirmed) = EligibleAtStart
    /\ stats.no_capacity > 0
    /\ request.endpoint = "/simulate-order"
    /\ Has(response.body, "detail")

\* C2: a unit's record changes only by its status going from available to
\* dispatched, in a dispatch call, for the unit selection yields on the fleet as
\* it was; the unit a confirmed call reports was available before the call and
\* is dispatched after it; no step makes a dispatched unit available.
C2_AvailableToReservedOnly ==
    [][/\ \A d \in DOMAIN drone_fleet :
              drone_fleet'[d] # drone_fleet[d] =>
                  /\ drone_fleet[d].status = "available"
                  /\ drone_fleet'[d] = [drone_fleet[d] EXCEPT !.status = "dispatched"]
                  /\ stats'.dispatch_calls = stats.dispatch_calls + 1
                  /\ d \in {select_optimal_drone(drone_fleet, "STAT"),
                            select_optimal_drone(drone_fleet, "routine")}
                  /\ \A e \in DOMAIN drone_fleet \ {d} :
                         drone_fleet'[e] = drone_fleet[e]
       /\ (/\ stats'.dispatch_calls # stats.dispatch_calls
           /\ ReportedDrone(response') # NoDrone) =>
              /\ drone_fleet[ReportedDrone(response')].status = "available"
              /\ drone_fleet'[ReportedDrone(response')].status = "dispatched"
      ]_vars

\* the whole fleet reserved, the last call confirmed
C2_Witness ==
    /\ \A d \in DOMAIN drone_fleet : drone_fleet[d].status = "dispatched"
    /\ ReportedDrone(response) # NoDrone
    /\ Len(active_orders) = 3

\* C3: every webhook event is answered with a success acknowledgment.
C3_WebhookNeverFails ==
    request.endpoint = "/vapi-webhook" => response.status_code = 200

LacksItemsOrDelivery(order_data) ==
    \/ ~NonEmpty(Get(order_data, "medications", EmptyDict))
    \/ ~NonEmpty(Get(order_data, "delivery_location", EmptyDict))

\* C4: a voice dispatch whose payload lacks the item list or the delivery
\* descriptor (absent or empty) is answered with the validation failure that
\* names the missing field and asks to call back.
C4_InvalidOrderNamesField ==
    \A p \in OrderPayloads :
        (/\ request.endpoint = "/vapi-webhook"
         /\ request.data \in {ToolCallsEnvelope("dispatch_drone", p),
                              FunctionCallEnvelope("dispatch_drone", p)}
         /\ LacksItemsOrDelivery(p)) =>
            response = ValidationFailed(
                           IF ~NonEmpty(Get(p, "medications", EmptyDict))
                           THEN "No medications specified"
                           ELSE "No delivery location specified")

-----------------------------------------------------------------------------
(* Properties of the broadcast hub.                                        *)

Frames(entries) == [i \in DOMAIN entries |-> sse_message(entries[i])]

Connected(c) == gen[c].pc # "unborn"

\* the window as it was when connection c subscribed (nothing is evicted
\* within the bounds of the model)
WindowAtSubscribe(c) == SubSeq(live_transcript, 1, gen[c].state)

\* C5: a subscriber is sent the window it subscribed to, in window order, ahead
\* of anything else, and its delivery goes on (its generator does not fail)
\* whenever entries are published, during the replay too.
C5_HistoryThenLive ==
    \A c \in Clients :
        Connected(c) =>
            /\ gen[c].pc # "failed"
            /\ \A i \in 1..Min(Len(received[c]), gen[c].state) :
                   received[c][i] = sse_message(WindowAtSubscribe(c)[i])

\* C6: a subscriber receives no entry twice (the utterances of the model are
\* distinct), also not the entry whose broadcast was pending when it subscribed.
C6_RacingEntryOnce ==
    \A c \in Clients :
        \A i, j \in 1..Len(received[c]) : i # j => received[c][i] # received[c][j]

\* the number of entries whose broadcast task has run
Published == appended - Len(tasks)

C9_DisconnectDeregisters ==
    \A c \in Clients :
        gen[c].pc \in {"closed", "cancelled"} => c \notin Range(sse_clients)

FirstIndex(list, x) ==
    CHOOSE i \in DOMAIN list : list[i] = x /\ \A j \in 1..(i - 1) : list[j] # x

-----------------------------------------------------------------------------
(* Properties of the selection.                                            *)

\* the units that are available and charged above 30
Eligible(fleet) ==
    {d \in DOMAIN fleet : fleet[d].status = "available" /\ fleet[d].battery > 30}

Selected(urgency) ==
    request = [endpoint |-> "select_optimal_drone", data |-> urgency]

\* C12: on a fleet with an eligible unit, a selection for an urgency other than
\* STAT returns the eligible unit of the lowest id; the fleet is as it was, so
\* a second call returns the same.
C12_LowestIdOtherwise ==
    \A urgency \in Urgencies \ {"STAT"} :
        (Selected(urgency) /\ Eligible(drone_fleet) # {}) =>
            \E d \in Eligible(drone_fleet) :
                /\ \A e \in Eligible(drone_fleet) : d <= e
                /\ response.body = [returned |-> d]

\* the lowest unit is not eligible, two others are
C12_Witness ==
    /\ Selected("urgent")
    /\ 1 \notin Eligible(drone_fleet)
    /\ Cardinality(Eligible(drone_fleet)) = 2
    /\ response.body = [returned |-> 2]

\* C13: on a fleet with an eligible unit, a selection for STAT returns an
\* eligible unit of maximal charge, the one of the lowest id among these.
C13_MaxBatteryForStat ==
    (Selected("STAT") /\ Eligible(drone_fleet) # {}) =>
        \E d \in Eligible(drone_fleet) :
            /\ response.body = [returned |-> d]
            /\ \A e \in Eligible(drone_fleet) :
                   /\ drone_fleet[e].battery <= drone_fleet[d].battery
                   /\ drone_fleet[e].battery = drone_fleet[d].battery => d <= e

\* units 2 and 3 tie at the maximum, unit 1 is eligible with less
C13_Witness ==
    /\ Selected("STAT")
    /\ Eligible(drone_fleet) = {1, 2, 3}
    /\ drone_fleet[1].battery < drone_fleet[2].battery
    /\ drone_fleet[2].battery = drone_fleet[3].battery
    /\ response.body = [returned |-> 2]

\* C14: without an eligible unit the selection raises "No drones available";
\* a voice dispatch with a complete payload is then answered 200 with the
\* apology, and leaves the fleet and the ledger as they were.
C14_NoCapacityApology ==
    [][Eligible(drone_fleet) = {} =>
           /\ \A urgency \in Urgencies :
                  select_optimal_drone(drone_fleet, urgency) = NoDrone
           /\ (\E urgency \in Urgencies : Selected(urgency)') =>
                  response'.body = [raised |-> "No drones available"]
           /\ (/\ stats'.dispatch_calls = stats.dispatch_calls + 1
               /\ stats'.all_complete) =>
                  /\ response' = Apology
                  /\ drone_fleet' = drone_fleet
                  /\ active_orders' = active_orders
      ]_vars

\* the apology was given while a unit was available, too low on charge
C14_Witness ==
    /\ response = Apology
    /\ stats.all_complete
    /\ \E d \in DOMAIN drone_fleet :
           drone_fleet[d].status = "available" /\ drone_fleet[d].battery <= 30

\* the three-tier table
EstimateFor(urgency) ==
    CASE urgency = "STAT" -> 2
      [] urgency = "urgent" -> 3
      [] OTHER -> 5

-----------------------------------------------------------------------------
(* Properties of a dispatch and of the ledger.                             *)

\* the body a response reports a dispatch in: the JSON body of /simulate-order,
\* the result of the voice path
ReportedResult(resp) ==
    IF Has(resp.body, "result") THEN resp.body["result"] ELSE resp.body

\* C16: a dispatch call that succeeds appends one entry to the ledger and
\* leaves the others; it reports the unit that selection yields for the
\* urgency, now dispatched, the estimate of the urgency and the code CIT-hhhh
\* for the facility "City General"; /simulate-order also returns the key of
\* the entry and the status "dispatched".  On the seed fleet a STAT order gets
\* unit 1 (battery 95) and estimate 2.
C16_DispatchResult ==
    [][(/\ stats'.dispatch_calls = stats.dispatch_calls + 1
        /\ ReportedDrone(response') # NoDrone) =>
           LET n == Len(active_orders')
               entry == active_orders'[n]
               result == ReportedResult(response')
           IN  /\ n = Len(active_orders) + 1
               /\ SubSeq(active_orders', 1, n - 1) = active_orders
               /\ result["drone_id"]
                      = select_optimal_drone(drone_fleet, entry["urgency"])
               /\ drone_fleet[result["drone_id"]].status = "available"
               /\ drone_fleet'[result["drone_id"]].status = "dispatched"
               /\ result["eta_minutes"] = EstimateFor(entry["urgency"])
               /\ Len(result["confirmation_code"]) = 2
               /\ entry["facility"] = "City General" =>
                      result["confirmation_code"][1] = "CIT"
               /\ result["confirmation_code"][2] \in HexCodes
               /\ request'.endpoint = "/simulate-order" =>
                      /\ result["order_id"] = n
                      /\ result["status"] = "dispatched"
               /\ (drone_fleet = SeedFleet /\ entry["urgency"] = "STAT") =>
                      /\ result["drone_id"] = 1
                      /\ drone_fleet[result["drone_id"]].battery = 95
                      /\ result["eta_minutes"] = 2
      ]_vars

\* the first call, a STAT order for "City General" posted to /simulate-order,
\* succeeded with unit 1
C16_Witness ==
    /\ request.endpoint = "/simulate-order"
    /\ stats.dispatch_calls = 1
    /\ Len(active_orders) = 1
    /\ active_orders[1]["urgency"] = "STAT"
    /\ response.status_code = 200
    /\ response.body["drone_id"] = 1
    /\ response.body["confirmation_code"][1] = "CIT"

\* C17: the unit a ledger entry records is a unit of the fleet, and it is
\* dispatched.
C17_LedgerUnitReserved ==
    \A i \in DOMAIN active_orders :
        /\ active_orders[i]["drone_id"] \in DOMAIN drone_fleet
        /\ drone_fleet[active_orders[i]["drone_id"]].status = "dispatched"

\* C18: a tool invocation leaves the fleet, the ledger and the response that
\* any other shape of the same name and arguments would have left.
C18_WireShapeTolerance ==
    [][request'.endpoint = "/vapi-webhook" =>
           \A name \in FunctionNames, arguments \in IntakeOrders :
               request'.data \in ShapesOf(name, arguments) =>
                   \E hex \in HexCodes :
                       \A data \in ShapesOf(name, arguments) :
                           LET h == tool_calls_branch(data["message"], drone_fleet,
                                                      active_orders, hex, now)
                           IN  /\ drone_fleet' = h.fleet
                               /\ active_orders' = h.orders
                               /\ response' = h.response
      ]_vars

\* a dispatch carried as message.functionCall with name and arguments under
\* "function", in an event tagged "tool-calls", was confirmed
C18_Witness ==
    /\ request.endpoint = "/vapi-webhook"
    /\ request.data = ShapedEnvelope("tool-calls", "functionCall", "nested",
                                     "dispatch_drone", CompleteOrder("STAT"))
    /\ ReportedDrone(response) = 1
    /\ Len(active_orders) = 1

-----------------------------------------------------------------------------
(* Properties of the extraction of utterances.                             *)

SpeechUpdate(req) ==
    /\ req.endpoint = "/vapi-webhook"
    /\ Get(Get(req.data, "message", EmptyDict), "type", None) = "speech-update"

\* the content the event holds for its own role, "" if it holds none
OwnContent(message) ==
    LET role == Get(message, "role", "unknown")
        messages == Get(Get(message, "artifact", EmptyDict), "messages", <<>>)
        own == {i \in DOMAIN messages :
                   Has(messages[i], "role") /\ messages[i]["role"] = role}
    IN  IF own = {} THEN ""
        ELSE LET i == CHOOSE k \in own : \A j \in own : j <= k
             IN  IF Has(messages[i], "content") THEN messages[i]["content"] ELSE ""

\* C19: a speech update whose status is not "stopped", or that has none, leaves
\* the window, the broadcast tasks and every queue as they were; whenever an
\* entry is appended for a speech update its status is "stopped".
C19_UnfinishedSegmentIgnored ==
    [][/\ (/\ request' # request
           /\ SpeechUpdate(request')
           /\ Get(request'.data["message"], "status", None) # "stopped") =>
              /\ live_transcript' = live_transcript
              /\ tasks' = tasks
              /\ queue' = queue
              /\ appended' = appended
              /\ response' = StatusOk
       /\ (appended' # appended /\ SpeechUpdate(request')) =>
              Get(request'.data["message"], "status", None) = "stopped"
      ]_vars

\* an update in progress that carries an utterance was handled after an entry
\* was published to a subscriber, and the window is as it was
C19_Witness ==
    /\ SpeechUpdate(request)
    /\ Get(request.data["message"], "status", None) = "in-progress"
    /\ OwnContent(request.data["message"]) = Utterances[2]
    /\ Len(live_transcript) = 1
    /\ tasks = <<>>
    /\ \E c \in Range(sse_clients) : Len(queue[c]) = 1

\* C20: a speech update with status "stopped" appends one entry when the last
\* message of its own role has content: the entry holds that content and the
\* role of the event, and one broadcast of it is created; otherwise it appends
\* and publishes nothing.  It is answered ok either way.
C20_LastMessageOfOwnRole ==
    [][/\ (appended' # appended /\ SpeechUpdate(request')) =>
              LET message == request'.data["message"]
                  role == Get(message, "role", "unknown")
                  n == Len(live_transcript')
              IN  /\ Get(message, "status", None) = "stopped"
                  /\ OwnContent(message) # ""
                  /\ appended' = appended + 1
                  /\ n = Len(live_transcript) + 1
                  /\ SubSeq(live_transcript', 1, n - 1) = live_transcript
                  /\ live_transcript'[n]["text"] = OwnContent(message)
                  /\ live_transcript'[n]["role"] = role
                  /\ tasks' = Append(tasks, live_transcript'[n])
                  /\ response' = StatusOk
       /\ (/\ request' # request
           /\ SpeechUpdate(request')
           /\ Get(request'.data["message"], "status", None) = "stopped") =>
              /\ response' = StatusOk
              /\ IF OwnContent(request'.data["message"]) # ""
                 THEN appended' = appended + 1
                 ELSE /\ live_transcript' = live_transcript
                      /\ tasks' = tasks
                      /\ queue' = queue
                      /\ appended' = appended
      ]_vars

\* the utterance of the user was taken from a list that ends with a reply of
\* the agent
C20_Witness ==
    /\ SpeechUpdate(request)
    /\ Get(request.data["message"], "role", None) = "user"
    /\ Get(Get(request.data["message"], "artifact", EmptyDict), "messages", <<>>)
           = <<[role |-> "user", content |-> Utterances[1]], AgentReply>>
    /\ Len(live_transcript) = 1
    /\ live_transcript[1]["text"] = Utterances[1]
    /\ live_transcript[1]["role"] = "user"

-----------------------------------------------------------------------------
(* Properties of the extraction from conversation snapshots.               *)

Snapshot(req) ==
    /\ req.endpoint = "/vapi-webhook"
    /\ Get(Get(req.data, "message", EmptyDict), "type", None) = "conversation-update"

\* the places of the user and assistant messages of a list
Speakers(conversation) ==
    {i \in DOMAIN conversation :
        Has(conversation[i], "role")
        /\ conversation[i]["role"] \in {"user", "assistant"}}

\* the place of the last user or assistant message of a list that has one
LastSpeaker(conversation) ==
    CHOOSE i \in Speakers(conversation) : \A j \in Speakers(conversation) : j <= i

ContentOf(msg) == IF Has(msg, "content") THEN msg["content"] ELSE ""

\* a step that handles a conversation snapshot (and is not a stuttering step)
SnapshotStep ==
    /\ Snapshot(request')
    /\ request' # request \/ appended' # appended

C22_EmptyLastSpeakerSkipped ==
    [][(/\ SnapshotStep
        /\ Has(request'.data["message"], "conversation")
        /\ Speakers(request'.data["message"]["conversation"]) # {}
        /\ LET conversation == request'.data["message"]["conversation"]
           IN  ContentOf(conversation[LastSpeaker(conversation)]) = "") =>
           /\ appended' = appended
           /\ live_transcript' = live_transcript
           /\ tasks' = tasks
      ]_vars

\* C23: no entry of the window has the role tag "system" or holds the content
\* of a system message, whichever path appended it.
C23_NoSystemContent ==
    \A i \in DOMAIN live_transcript :
        /\ live_transcript[i]["role"] # "system"
        /\ live_transcript[i]["text"] # SystemMessage["content"]

AgentLabel == "VAPI Agent"
UserLabel == "User"

-----------------------------------------------------------------------------
(* Properties of the window.                                               *)

\* a deque of the given maxlen after the appends of 1, ..., n
RECURSIVE Filled(_, _)
Filled(n, maxlen) ==
    IF n = 0 THEN <<>> ELSE deque_append(Filled(n - 1, maxlen), n, maxlen)

\* C25: the window holds min(n, 100) entries after n appends, and they are the
\* last min(n, 100) of the entries appended, in the order of their appends (the
\* k-th entry appended holds the k-th utterance); 7 appends to a deque of
\* capacity 5 leave the entries 3 to 7.
C25_WindowKeepsMostRecent ==
    LET n == Len(live_transcript)
    IN  /\ n <= TranscriptMaxlen
        /\ n = Min(appended, TranscriptMaxlen)
        /\ \A i \in 1..n :
               live_transcript[i]["text"] = UtteranceAt(appended - n + i)
        /\ Filled(7, 5) = <<3, 4, 5, 6, 7>>

\* two entries more than the window holds were appended: it starts with the
\* third and ends with the last
C25_Witness ==
    /\ appended = TranscriptMaxlen + 2
    /\ Len(live_transcript) = TranscriptMaxlen
    /\ live_transcript[1]["text"] = UtteranceAt(3)
    /\ live_transcript[TranscriptMaxlen]["text"] = UtteranceAt(TranscriptMaxlen + 2)

-----------------------------------------------------------------------------
(* Properties of the ledger over time.                                     *)

DispatchStep == stats'.dispatch_calls = stats.dispatch_calls + 1

\* an entry as it was created: without what a call summary attaches
AsCreated(entry) == Without(Without(entry, "transcript"), "call_duration")

\* C26: a step adds at most one entry to the ledger and only a dispatch call
\* adds one; the entry gets a key that no entry has; every entry stays under its
\* key as it was created; a dispatch call that is confirmed adds one entry;
\* GET / reports the number of entries, which so is the number of dispatch
\* calls that added one.
C26_LedgerOnlyGrows ==
    [][LET n == Len(active_orders)
           m == Len(active_orders')
       IN  /\ m \in {n, n + 1}
           /\ \A i \in 1..n :
                  /\ i \in DOMAIN active_orders'
                  /\ AsCreated(active_orders'[i]) = AsCreated(active_orders[i])
           /\ m = n + 1 => DispatchStep /\ m \notin DOMAIN active_orders
           /\ (DispatchStep /\ ReportedDrone(response') # NoDrone) =>
                  /\ m = n + 1
                  /\ active_orders'[m]["order_id"] = m
                  /\ request'.endpoint = "/simulate-order" =>
                         response'.body["order_id"] = m
           /\ request'.endpoint = "/" =>
                  response'.body["active_orders"] = m
      ]_vars

\* GET / reported two entries, ten minutes after the first was created; the
\* first has a transcript attached
C26_Witness ==
    /\ request.endpoint = "/"
    /\ response.body["active_orders"] = 2
    /\ Len(active_orders) = 2
    /\ now - active_orders[1]["timestamp"] = 10
    /\ Has(active_orders[1], "transcript")
    /\ active_orders[1]["order_id"] = 1
    /\ active_orders[2]["order_id"] = 2

GetOrderStep ==
    /\ request'.endpoint = "/orders/{order_id}"
    /\ request' # request \/ response' # response

\* C27: GET /orders/{order_id} answers 404 "Order not found" for a key that is
\* not in the ledger and the entry for a key that is; it changes nothing.
C27_LookupNotFound ==
    [][GetOrderStep =>
           /\ UNCHANGED <<dispatch_vars, hub_vars, stats, now>>
           /\ IF request'.data \in DOMAIN active_orders
              THEN response' = [status_code |-> 200,
                                body |-> active_orders[request'.data]]
              ELSE response' = HTTPException404
      ]_vars

\* a key that no entry has was asked for while the ledger held an entry
C27_Witness ==
    /\ request.endpoint = "/orders/{order_id}"
    /\ active_orders # <<>>
    /\ request.data \notin DOMAIN active_orders
    /\ response.status_code = 404
    /\ response.body = [detail |-> "Order not found"]

EndOfCall(req) ==
    /\ req.endpoint = "/vapi-webhook"
    /\ Get(Get(req.data, "message", EmptyDict), "type", None) = "end-of-call-report"

\* the entries a call summary that arrives now could be about
Qualifying ==
    {i \in DOMAIN active_orders :
        /\ active_orders[i]["status"] = "dispatched"
        /\ now - active_orders[i]["timestamp"] < 10}

\* C28: an entry of the ledger changes only in a step that handles a call
\* summary, and only by its transcript and call duration being set to those of
\* the event (the defaults if it has none): it is the entry created first
\* among those whose status is "dispatched" and that were created less than 10
\* minutes before.  That step leaves the other entries, the number of entries
\* and the fleet as they were; without such an entry a call summary leaves the
\* ledger as it was.
C28_OnlyCallSummaryMutates ==
    [][/\ \A i \in DOMAIN active_orders :
              (i \in DOMAIN active_orders' /\ active_orders'[i] # active_orders[i]) =>
                  /\ EndOfCall(request')
                  /\ i \in Qualifying
                  /\ \A j \in Qualifying : i <= j
                  /\ AsCreated(active_orders'[i]) = AsCreated(active_orders[i])
                  /\ active_orders'[i]["transcript"]
                         = Get(request'.data["message"], "transcript",
                               "No transcript available")
                  /\ active_orders'[i]["call_duration"]
                         = Get(request'.data["message"], "durationSeconds", 0)
                  /\ \A j \in DOMAIN active_orders \ {i} :
                         active_orders'[j] = active_orders[j]
                  /\ Len(active_orders') = Len(active_orders)
                  /\ drone_fleet' = drone_fleet
       /\ (EndOfCall(request') /\ request' # request) =>
              /\ drone_fleet' = drone_fleet
              /\ Len(active_orders') = Len(active_orders)
              /\ Qualifying = {} => active_orders' = active_orders
              /\ Qualifying # {} =>
                     \E i \in Qualifying :
                         /\ \A j \in Qualifying : i <= j
                         /\ Has(active_orders'[i], "transcript")
                         /\ Has(active_orders'[i], "call_duration")
      ]_vars

\* of two entries the second got the transcript: the first was ten minutes old
C28_Witness ==
    /\ EndOfCall(request)
    /\ Len(active_orders) = 2
    /\ active_orders[1]["status"] = "dispatched"
    /\ ~Has(active_orders[1], "transcript")
    /\ now - active_orders[1]["timestamp"] = 10
    /\ Get(active_orders[2], "transcript", None) = "Test transcript"
    /\ Get(active_orders[2], "call_duration", None) = 45

\* C29: a call summary whose notification raises or reports an error is
\* answered ok, and the entry found for the call has the transcript and the
\* duration of the event; no step takes a transcript or a duration off an
\* entry.
C29_NotifierFailureContained ==
    [][/\ (/\ EndOfCall(request')
           /\ request' # request
           /\ request'.notifier \in {"raises", "error"}) =>
              LET i == order_for_call(active_orders, now)
              IN  /\ response' = StatusOk
                  /\ i # 0
                  /\ active_orders'[i]["transcript"]
                         = Get(request'.data["message"], "transcript",
                               "No transcript available")
                  /\ active_orders'[i]["call_duration"]
                         = Get(request'.data["message"], "durationSeconds", 0)
       /\ \A i \in DOMAIN active_orders :
              \A k \in {"transcript", "call_duration"} :
                  Has(active_orders[i], k) =>
                      i \in DOMAIN active_orders' /\ Has(active_orders'[i], k)
      ]_vars

\* the notifier raised, the event was acknowledged, the entry has the transcript
C29_Witness ==
    /\ EndOfCall(request)
    /\ request.notifier = "raises"
    /\ response = StatusOk
    /\ Len(active_orders) = 1
    /\ Get(active_orders[1], "transcript", None) = "Test transcript"
    /\ Get(active_orders[1], "call_duration", None) = 45

\* a unit that is reserved and that no entry of the ledger records
StuckIn(fleet, orders, d) ==
    /\ fleet[d].status = "dispatched"
    /\ \A i \in DOMAIN orders : orders[i]["drone_id"] # d

Stuck(d) == StuckIn(drone_fleet, active_orders, d)

\* C30: a dispatch that raises for the missing facility, after the unit was
\* reserved, leaves the unit reserved and the ledger as it was; a unit that is
\* reserved without an entry stays so in every later step.
C30_NoRollback ==
    [][/\ (DispatchStep /\ response' = HTTPException500("KeyError: facility")) =>
              LET d == select_optimal_drone(drone_fleet, request'.data["urgency"])
              IN  /\ d # NoDrone
                  /\ drone_fleet[d].status = "available"
                  /\ drone_fleet' = reserve(drone_fleet, d)
                  /\ active_orders' = active_orders
                  /\ StuckIn(drone_fleet', active_orders', d)
       /\ \A d \in DOMAIN drone_fleet :
              Stuck(d) => StuckIn(drone_fleet', active_orders', d)
      ]_vars

\* unit 1 was reserved by a dispatch that failed; the next dispatch took unit 2;
\* ten minutes on unit 1 is still reserved, and the ledger has the one entry
C30_Witness ==
    /\ Stuck(1)
    /\ stats.dispatch_calls = 2
    /\ Len(active_orders) = 1
    /\ active_orders[1]["drone_id"] = 2
    /\ drone_fleet[3].status = "available"
    /\ now = 10

-----------------------------------------------------------------------------
(* Properties of the ledger and the fleet as a whole.                      *)

\* C31: every entry of the ledger has a non-empty item list and a non-empty
\* delivery descriptor, whichever surface created it.
C31_LedgerEntriesValid ==
    \A i \in DOMAIN active_orders :
        /\ NonEmpty(Get(active_orders[i], "medications", EmptyDict))
        /\ NonEmpty(Get(active_orders[i], "delivery_location", EmptyDict))

\* the delivery loop of a connection is running: its generator is suspended
\* at a yield or at queue.get()
Running(c) == gen[c].pc \in {"replay", "yielded", "waiting"}

\* C32: every handle in the list of subscribers belongs to a delivery loop that
\* is running.
C32_OnlyRunningLoopsRegistered ==
    \A c \in Range(sse_clients) : Running(c)

-----------------------------------------------------------------------------
(* Properties of the kinds of event and of the read endpoints.             *)

Webhook(req, envelopes) ==
    req.endpoint = "/vapi-webhook" /\ req.data \in envelopes

\* the events that are logged and dropped: a tool invocation that names
\* another function, no message, an unknown kind, a transcript fragment
InertEvents == OtherInvocations \cup OtherEnvelopes

\* C33: the fleet changes and the ledger grows only in a tool invocation that
\* names the dispatch function, which leaves the entries there are, the window
\* and the hub; an entry changes only in a call summary, which leaves the fleet,
\* the number of entries, the window and the hub; the window changes and a
\* broadcast is created only in a speech update or a conversation snapshot,
\* which leave the fleet and the ledger; a queue grows only when a broadcast
\* so created runs.  A tool invocation that names another function, an event
\* without message, a transcript fragment and an unknown kind are answered ok
\* and change nothing.
C33_EachKindItsOwnState ==
    [][/\ (drone_fleet' # drone_fleet
           \/ Len(active_orders') # Len(active_orders)) =>
              /\ Webhook(request', DispatchInvocations)
              /\ Len(active_orders') = Len(active_orders) + 1
              /\ SubSeq(active_orders', 1, Len(active_orders)) = active_orders
              /\ UNCHANGED hub_vars
       /\ (\E i \in DOMAIN active_orders :
               i \in DOMAIN active_orders' /\ active_orders'[i] # active_orders[i]) =>
              /\ EndOfCall(request')
              /\ Len(active_orders') = Len(active_orders)
              /\ UNCHANGED <<drone_fleet, hub_vars>>
       /\ (live_transcript' # live_transcript \/ Len(tasks') > Len(tasks)) =>
              /\ SpeechUpdate(request') \/ Snapshot(request')
              /\ tasks' = Append(tasks, live_transcript'[Len(live_transcript')])
              /\ UNCHANGED <<dispatch_vars, sse_clients, queue>>
       /\ (\E c \in Clients : Len(queue'[c]) > Len(queue[c])) =>
              /\ tasks # <<>>
              /\ tasks' = Tail(tasks)
              /\ UNCHANGED <<dispatch_vars, live_transcript, io_vars>>
       /\ (request' # request /\ Webhook(request', InertEvents)) =>
              /\ response' = StatusOk
              /\ UNCHANGED <<dispatch_vars, hub_vars>>
      ]_vars

\* a tool invocation that names another function was answered ok on a server
\* with a reserved unit, an entry with a transcript, a window of two entries
\* and a subscriber with a frame in its queue
C33_Witness ==
    /\ Webhook(request, OtherInvocations)
    /\ response = StatusOk
    /\ \E d \in DOMAIN drone_fleet : drone_fleet[d].status = "dispatched"
    /\ Len(active_orders) = 1
    /\ Has(active_orders[1], "transcript")
    /\ Len(live_transcript) = 2
    /\ \E c \in Range(sse_clients) : queue[c] # <<>>

ReadStep ==
    /\ request'.endpoint \in ReadEndpoints
    /\ request' # request \/ response' # response

\* C40: GET /transcript-history returns the window as a list, in the order of
\* the window; it, GET /, GET /orders and GET /drones leave the window, the
\* hub, the fleet and the ledger as they were (and report them as they are).
C40_ReadsChangeNothing ==
    [][ReadStep =>
           /\ UNCHANGED <<dispatch_vars, hub_vars>>
           /\ response'.status_code = 200
           /\ request'.endpoint = "/transcript-history" =>
                  /\ DOMAIN response'.body = {"transcript"}
                  /\ Len(response'.body["transcript"]) = Len(live_transcript)
                  /\ \A i \in DOMAIN live_transcript :
                         response'.body["transcript"][i] = live_transcript[i]
           /\ request'.endpoint = "/" =>
                  response'.body["active_orders"] = Len(active_orders)
           /\ request'.endpoint = "/orders" =>
                  response'.body["orders"] = active_orders
           /\ request'.endpoint = "/drones" =>
                  response'.body["drones"] = drone_fleet
      ]_vars

\* the history of a window of two entries was read while a broadcast was
\* pending and a subscriber was registered
C40_Witness ==
    /\ request.endpoint = "/transcript-history"
    /\ Len(live_transcript) = 2
    /\ response.body["transcript"] = live_transcript
    /\ response.body["transcript"][1]["text"] = Utterances[1]
    /\ response.body["transcript"][2]["text"] = Utterances[2]
    /\ tasks # <<>>
    /\ sse_clients # <<>>
    /\ active_orders # <<>>

-----------------------------------------------------------------------------
(* From the append to the queues.                                          *)

\* C34: the k-th entry appended is published: its broadcast runs, and the step
\* that runs it puts the frame of that entry on the queue of every handle
\* registered then.  Every frame in a queue, and every frame a subscriber has
\* received, is the frame of an entry that was appended.
C34_AppendedThenPublished ==
    /\ \A k \in 1..MaxTranscriptEvents : (appended >= k) ~> (Published >= k)
    /\ [][Len(tasks') < Len(tasks) =>
              /\ Published' = Published + 1
              /\ Head(tasks) = live_transcript[Published + 1]
              /\ \A c \in Range(sse_clients) :
                     queue'[c] = Append(queue[c],
                                        sse_message(live_transcript[Published + 1]))
         ]_vars
    /\ [](\A c \in Clients :
              /\ \A i \in DOMAIN queue[c] :
                     \E k \in 1..appended :
                         queue[c][i] = sse_message(live_transcript[k])
              /\ \A i \in DOMAIN received[c] :
                     \E k \in 1..appended :
                         received[c][i] = sse_message(live_transcript[k]))

\* a subscriber that registered on an empty window has received the frames of
\* the two entries appended since, in their order
C34_Witness ==
    \E c \in Range(sse_clients) :
        /\ gen[c].state = 0
        /\ appended = 2
        /\ tasks = <<>>
        /\ received[c] = Frames(live_transcript)
        /\ queue[c] = <<>>

-----------------------------------------------------------------------------
(* Properties of what a dispatch writes and reports.                       *)

\* C35: the entry a confirmed dispatch writes is stored under the key that is
\* its order_id, and its unit, tracking code, status, creation time and
\* estimated arrival are those the dispatch computed and reported, whatever
\* keys the payload has.
C35_DerivedFieldsKept ==
    [][(DispatchStep /\ ReportedDrone(response') # NoDrone) =>
           LET m == Len(active_orders')
               entry == active_orders'[m]
               result == ReportedResult(response')
           IN  /\ entry["order_id"] = m
               /\ entry["drone_id"] = result["drone_id"]
               /\ entry["confirmation_code"] = result["confirmation_code"]
               /\ entry["status"] = "dispatched"
               /\ entry["timestamp"] = now
               /\ entry["eta"] = now + result["eta_minutes"]
      ]_vars

\* C36: a dispatch call that reports a failure to its caller leaves the ledger
\* as it was.
C36_FailureAddsNoEntry ==
    [][(DispatchStep /\ ReportedDrone(response') = NoDrone) =>
           active_orders' = active_orders
      ]_vars

\* C38: an entry that has a transcript and a duration attached keeps both in
\* every later step, call summaries of other calls included.
C38_AttachedTranscriptKept ==
    [][\A i \in 1..Len(active_orders) :
           "transcript" \in DOMAIN active_orders[i] =>
               /\ Get(active_orders'[i], "transcript", None) = active_orders[i]["transcript"]
               /\ Get(active_orders'[i], "call_duration", None) =
                      Get(active_orders[i], "call_duration", None)
      ]_vars

\* C39: no two ledger entries carry the same tracking code.
C39_TrackingCodesDistinct ==
    \A i, j \in 1..Len(active_orders) :
        i # j => active_orders[i]["confirmation_code"] # active_orders[j]["confirmation_code"]

-----------------------------------------------------------------------------
(* Properties of a fleet that runs out of units.                           *)

FleetSize == Cardinality(DOMAIN SeedFleet)

\* the units that a dispatch reserved
Reserved(fleet) == Cardinality({d \in DOMAIN fleet : fleet[d].status = "dispatched"})

\* no unit is left that a selection could return
Exhausted == AvailableDrones(drone_fleet) = <<>>

\* entries <= reserved units <= K, and what GET / reports as available plus
\* the reserved units is K
Accounting ==
    /\ Len(active_orders) <= Reserved(drone_fleet)
    /\ Reserved(drone_fleet) <= FleetSize
    /\ root(drone_fleet, active_orders).body["available_drones"]
           + Reserved(drone_fleet) = FleetSize
    /\ request.endpoint = "/" =>
           response.body["available_drones"] + Reserved(drone_fleet) = FleetSize

\* C37 as stated: the accounting holds in every state, and once no eligible
\* unit remains every dispatch call fails and no step changes the fleet or the
\* ledger.
C37_FrozenAfterExhaustion ==
    /\ []Accounting
    /\ [][Exhausted =>
              /\ DispatchStep => ReportedDrone(response') = NoDrone
              /\ drone_fleet' = drone_fleet
              /\ active_orders' = active_orders
        ]_vars

\* C37: the accounting holds in every state; once no eligible unit remains
\* every dispatch call fails, no step changes the fleet, and no step adds an
\* entry to the ledger or changes one otherwise than a call summary does, by
\* attaching its transcript and duration.
C37_NoDispatchAfterExhaustion ==
    /\ []Accounting
    /\ [][Exhausted =>
              /\ DispatchStep => ReportedDrone(response') = NoDrone
              /\ drone_fleet' = drone_fleet
              /\ Len(active_orders') = Len(active_orders)
              /\ \A i \in 1..Len(active_orders) :
                     AsCreated(active_orders'[i]) = AsCreated(active_orders[i])
              /\ active_orders' # active_orders => EndOfCall(request')
        ]_vars

\* the three units are reserved, one of them by a call that failed after the
\* reservation; a later call failed for lack of capacity, a call summary then
\* attached its transcript, and GET / reports no unit available
C37_Witness ==
    /\ Exhausted
    /\ stats.no_capacity >= 1
    /\ Len(active_orders) = 2
    /\ Reserved(drone_fleet) = 3
    /\ Has(active_orders[1], "transcript")
    /\ request.endpoint = "/"
    /\ response.body["available_drones"] = 0

=============================================================================
